---- MODULE Spec2Model ----
(***************************************************************************)
(* The student record service of server/src/main.rs: a HashMap behind one  *)
(* tokio RwLock, and the five RPC handlers create_student, get_student,    *)
(* update_student, delete_student and list_students.                       *)
(*                                                                         *)
(* Strings are sequences of one-character strings, so that trim(),         *)
(* is_empty(), parse::<usize>() and to_string() are computed as the code   *)
(* computes them.  Option<T> is a sequence of length 0 (None) or 1 (Some). *)
(***************************************************************************)
EXTENDS Integers, Sequences, FiniteSets, TLC

VARIABLES
    store,      \* the HashMap<String, Student> behind the lock: id -> Student
    order,      \* the iteration order of the HashMap's table: a sequence of its keys
    lock,       \* the RwLock: [writer |-> call or 0, readers |-> set of calls]
    waiters,    \* the FIFO queue of the RwLock's semaphore: calls awaiting the lock
    calls,      \* one record per RPC task: where the handler is, its locals, its result
    pager,      \* a caller paging through List: its page size, its token, its pages
    watch       \* history: a record a Create returned, or an id a Delete removed

\* what the callers keep; the service reads none of it
aux == <<pager, watch>>

vars == <<store, order, lock, waiters, calls, pager, watch>>

-----------------------------------------------------------------------------
(* Bounds of the model *)

Min(a, b) == IF a < b THEN a ELSE b

\* number of RPC tasks of the server
NumCalls == 3

Calls == 1..NumCalls

\* number of tasks that run at once when the callers send every kind of request
NumCallers == 2

Callers == 1..Min(NumCallers, NumCalls)

\* number of records the callers let the store grow to
MaxStudents == 2

-----------------------------------------------------------------------------
(* Strings *)

\* char::is_whitespace, as far as the inputs of the model go
WhiteSpace == {" ", "\t"}

RECURSIVE TrimStart(_)
TrimStart(s) ==
    IF Len(s) > 0 /\ Head(s) \in WhiteSpace THEN TrimStart(Tail(s)) ELSE s

RECURSIVE TrimEnd(_)
TrimEnd(s) ==
    IF Len(s) > 0 /\ s[Len(s)] \in WhiteSpace
    THEN TrimEnd(SubSeq(s, 1, Len(s) - 1))
    ELSE s

\* str::trim
Trim(s) == TrimEnd(TrimStart(s))

\* str::is_empty
IsEmpty(s) == Len(s) = 0

Digits == <<"0", "1", "2", "3", "4", "5", "6", "7", "8", "9">>

IsDigit(ch) == \E i \in 1..10 : Digits[i] = ch

DigitVal(ch) == (CHOOSE i \in 1..10 : Digits[i] = ch) - 1

RECURSIVE DigitsValue(_)
DigitsValue(s) ==
    IF Len(s) = 0 THEN 0
    ELSE 10 * DigitsValue(SubSeq(s, 1, Len(s) - 1)) + DigitVal(s[Len(s)])

\* a lenient parse, for comparison: the value of the digits the string begins
\* with, whatever follows them
parse_usize_prefix(s) ==
    LET body == IF Len(s) > 0 /\ Head(s) = "+" THEN Tail(s) ELSE s
        n == CHOOSE k \in 0..Len(body) :
                /\ \A i \in 1..k : IsDigit(body[i])
                /\ k < Len(body) => ~IsDigit(body[k + 1])
    IN  IF n > 0 THEN <<DigitsValue(SubSeq(body, 1, n))>> ELSE <<>>

\* str::parse::<usize>: an optional "+" and then one or more decimal digits;
\* anything else (the empty string, a "-", a blank, a letter) is an Err.
\* The tokens of the model are far shorter than the 20 digits of usize::MAX,
\* so the PosOverflow error does not arise.
parse_usize(s) ==
    LET body == IF Len(s) > 0 /\ Head(s) = "+" THEN Tail(s) ELSE s
    IN  IF Len(body) > 0 /\ \A i \in 1..Len(body) : IsDigit(body[i])
        THEN <<DigitsValue(body)>>
        ELSE <<>>

\* usize::to_string: decimal, no sign, no leading zero
RECURSIVE to_string(_)
to_string(n) ==
    IF n < 10 THEN <<Digits[n + 1]>>
    ELSE to_string(n \div 10) \o <<Digits[(n % 10) + 1]>>

-----------------------------------------------------------------------------
(* Floats: gpa is an IEEE float; a value is a number of hundredths, or NaN *)

F(v) == [nan |-> FALSE, v |-> v]

NaN == [nan |-> TRUE, v |-> 0]

\* the operators < and > of a float: false whenever an operand is NaN
FLt(a, b) == ~a.nan /\ ~b.nan /\ a.v < b.v

FGt(a, b) == ~a.nan /\ ~b.nan /\ a.v > b.v


-----------------------------------------------------------------------------
(* Messages *)

\* Option<T>
None == <<>>

Some(x) == <<x>>

\* proto::Student
NewStudent(id, name, email, age, major, gpa) ==
    [id |-> id, name |-> name, email |-> email, age |-> age,
     major |-> major, gpa |-> gpa]

\* Student::default(): what unwrap_or_default() gives for a missing payload
DefaultStudent == NewStudent(<<>>, <<>>, <<>>, 0, <<>>, F(0))

unwrap_or_default(opt) == IF Len(opt) = 0 THEN DefaultStudent ELSE opt[1]

\* tonic::Status
OkStatus == [code |-> "Ok", message |-> ""]

invalid_argument(msg) == [code |-> "InvalidArgument", message |-> msg]

not_found(msg) == [code |-> "NotFound", message |-> msg]

already_exists(msg) == [code |-> "AlreadyExists", message |-> msg]

\* the handler's task panicked: the caller gets no response of the service
Panicked == [code |-> "Panic", message |-> ""]

\* a request message; each handler reads its own fields
Request(student, id, page_size, page_token) ==
    [student |-> student, id |-> id, page_size |-> page_size,
     page_token |-> page_token]

NoRequest == Request(None, <<>>, 0, <<>>)

\* what a handler returns: Err(status), or Ok(response) with the response's fields
Reply(status, student, students, next_page_token, total_count, success, message) ==
    [status |-> status, student |-> student, students |-> students,
     next_page_token |-> next_page_token, total_count |-> total_count,
     success |-> success, message |-> message]

Err(status) == Reply(status, None, <<>>, <<>>, 0, FALSE, <<>>)

NoReply == Err([code |-> "Pending", message |-> ""])

\* CreateStudentResponse, GetStudentResponse, UpdateStudentResponse
StudentResponse(student) ==
    Reply(OkStatus, Some(student), <<>>, <<>>, 0, FALSE, <<>>)

\* DeleteStudentResponse
DeleteResponse(student) ==
    Reply(OkStatus, None, <<>>, <<>>, 0, TRUE,
          <<"Student ">> \o student.name \o <<" deleted successfully">>)

\* ListStudentsResponse
ListResponse(students, next_page_token, total_count) ==
    Reply(OkStatus, None, students, next_page_token, total_count, FALSE, <<>>)

-----------------------------------------------------------------------------
(* The service's pure parts *)

\* StudentServiceImpl::validate_student
validate_student(student) ==
    IF IsEmpty(Trim(student.name))
    THEN invalid_argument("Student name cannot be empty")
    ELSE IF IsEmpty(Trim(student.email))
    THEN invalid_argument("Student email cannot be empty")
    ELSE IF student.age < 0 \/ student.age > 150
    THEN invalid_argument("Student age must be between 0 and 150")
    ELSE IF FLt(student.gpa, F(0)) \/ FGt(student.gpa, F(400))
    THEN invalid_argument("Student GPA must be between 0.0 and 4.0")
    ELSE OkStatus

\* store.values().cloned().collect(): the records in the table's iteration order
Values(st, ord) == [i \in 1..Len(ord) |-> st[ord[i]]]

\* the page size list_students pages with
DefaultPageSize == 10

EffectivePageSize(page_size) ==
    IF page_size <= 0 THEN DefaultPageSize ELSE page_size

\* a faulty list_students, for comparison: the next token names the last record
\* of the page, not the record after it
list_students_off_by_one(st, ord, req) ==
    LET page_size == EffectivePageSize(req.page_size)
        students == Values(st, ord)
        total_count == Len(students)
        parsed == parse_usize(req.page_token)
        start_index == IF Len(parsed) = 0 THEN 0 ELSE parsed[1]
        end_index == Min(start_index + page_size, Len(students))
    IN  IF start_index > end_index
        THEN Err(Panicked)
        ELSE ListResponse(
                SubSeq(students, start_index + 1, end_index),
                IF end_index < Len(students) THEN to_string(end_index - 1) ELSE <<>>,
                total_count)

\* list_students from the read lock on: the slice, the next token, the count.
\* students[start_index..end_index] panics when start_index > end_index, that
\* is when start_index > students.len().  (Were start_index + page_size to
\* overflow usize, a debug build panics on the addition and a release build
\* wraps to an end_index below start_index and panics on the slice: the task
\* panics either way, and start_index > students.len() there too.)
list_students(st, ord, req) ==
    LET page_size == EffectivePageSize(req.page_size)
        students == Values(st, ord)
        total_count == Len(students)
        parsed == parse_usize(req.page_token)
        start_index == IF Len(parsed) = 0 THEN 0 ELSE parsed[1]
        end_index == Min(start_index + page_size, Len(students))
    IN  IF start_index > end_index
        THEN Err(Panicked)
        ELSE ListResponse(
                SubSeq(students, start_index + 1, end_index),
                IF end_index < Len(students) THEN to_string(end_index) ELSE <<>>,
                total_count)

\* the id check of get_student, update_student and delete_student
check_id(id) ==
    IF IsEmpty(Trim(id))
    THEN invalid_argument("Student ID cannot be empty")
    ELSE OkStatus

\* get_student from the read lock on
get_student(st, id) ==
    IF id \in DOMAIN st
    THEN StudentResponse(st[id])
    ELSE Err(not_found("Student not found"))

\* the orders a table can iterate its keys in
Perms(S) ==
    {f \in [1..Cardinality(S) -> S] : \A i, j \in 1..Cardinality(S) : f[i] = f[j] => i = j}

\* the order of the remaining keys when one is removed: the others do not move
Without(ord, id) == SelectSeq(ord, LAMBDA k : k # id)

-----------------------------------------------------------------------------
(* The state *)

\* an RPC task that is not running
IdleCall ==
    [pc |-> "idle", op |-> "None", req |-> NoRequest,
     student |-> DefaultStudent, resp |-> NoReply]

\* a caller that pages through List: the page size it keeps to, the token it
\* sends next, the pages it has received, and whether it has seen the last page
NewPager(page_size) ==
    [page_size |-> page_size, token |-> <<>>, pages |-> <<>>,
     finished |-> FALSE, failed |-> FALSE]

NoPager == NewPager(0)

\* history of one id: "created" with the record a Create returned for it, as
\* long as no Update or Delete of the id has succeeded since; "deleted" with
\* the record a Delete removed, as long as no Create of the id has succeeded
\* since; "none" otherwise
Watch(kind, student) == [kind |-> kind, student |-> student]

NoWatch == Watch("none", DefaultStudent)

\* StudentServiceImpl::new(): an empty map, a free lock, no task
Init ==
    /\ store = <<>>
    /\ order = <<>>
    /\ lock = [writer |-> 0, readers |-> {}]
    /\ waiters = <<>>
    /\ calls = [c \in Calls |-> IdleCall]
    /\ pager = NoPager
    /\ watch = NoWatch

\* the handler returns before it asks for the lock
ReturnEarly(c, op, req, student, status) ==
    /\ calls' = [calls EXCEPT ![c] =
            [pc |-> "done", op |-> op, req |-> req, student |-> student,
             resp |-> Err(status)]]
    /\ UNCHANGED <<store, order, lock, waiters>>

\* the handler reaches self.store.write().await or self.store.read().await
AwaitLock(c, op, req, student) ==
    /\ calls' = [calls EXCEPT ![c] =
            [pc |-> "waiting", op |-> op, req |-> req, student |-> student,
             resp |-> NoReply]]
    /\ waiters' = Append(waiters, c)
    /\ UNCHANGED <<store, order, lock>>

WriteOps == {"Create", "Update", "Delete"}

\* a faulty lock, for comparison: a writer is let in as a reader is, whoever
\* reads or holds an entry at the time
AcquireAsReader(c) ==
    /\ calls[c].pc = "waiting"
    /\ Len(waiters) > 0 /\ Head(waiters) = c
    /\ lock.writer = 0
    /\ lock' = [lock EXCEPT !.readers = @ \cup {c}]
    /\ waiters' = Tail(waiters)
    /\ calls' = [calls EXCEPT ![c].pc = "locked"]
    /\ UNCHANGED <<store, order>>

\* RwLock::write / RwLock::read resolve: the semaphore serves its waiters in
\* FIFO order; a writer needs the lock free, a reader needs it free of a writer
Acquire(c) ==
    /\ calls[c].pc = "waiting"
    /\ Len(waiters) > 0 /\ Head(waiters) = c
    /\ lock.writer = 0
    /\ IF calls[c].op \in WriteOps
       THEN /\ lock.readers = {}
            /\ lock' = [lock EXCEPT !.writer = c]
       ELSE lock' = [lock EXCEPT !.readers = @ \cup {c}]
    /\ waiters' = Tail(waiters)
    /\ calls' = [calls EXCEPT ![c].pc = "locked"]
    /\ UNCHANGED <<store, order>>

\* the guard is dropped when the handler returns, on every path
Release(c) ==
    lock' = [writer |-> IF lock.writer = c THEN 0 ELSE lock.writer,
             readers |-> lock.readers \ {c}]

\* the handler returns resp and drops its guard
Finish(c, resp) ==
    /\ calls' = [calls EXCEPT ![c].pc = "done", ![c].resp = resp]
    /\ Release(c)
    /\ UNCHANGED waiters

-----------------------------------------------------------------------------
(* create_student *)

\* Uuid::new_v4().to_string(): a random identifier; Uuids is the pool it draws from
Uuids == {<<"u", "1">>, <<"u", "2">>}

\* lines 51-59: unwrap the payload, validate, generate the id when it is empty
CreateInvoke(c, req) ==
    /\ calls[c].pc = "idle"
    /\ LET student == unwrap_or_default(req.student)
           valid == validate_student(student)
       IN  IF valid.code # "Ok"
           THEN ReturnEarly(c, "Create", req, student, valid)
           ELSE IF IsEmpty(student.id)
           THEN \E u \in Uuids :
                    AwaitLock(c, "Create", req, [student EXCEPT !.id = u])
           ELSE AwaitLock(c, "Create", req, student)

\* a faulty create_student, for comparison: the key is the id the request
\* carried, not the id of the record once it is generated
CreateBodyKeyAsSent(c) ==
    /\ calls[c].pc = "locked" /\ calls[c].op = "Create"
    /\ LET student == calls[c].student
           key == unwrap_or_default(calls[c].req.student).id
       IN  IF key \in DOMAIN store
           THEN /\ Finish(c, Err(already_exists("Student with this ID already exists")))
                /\ UNCHANGED <<store, order>>
           ELSE /\ store' = [k \in DOMAIN store \cup {key} |->
                                IF k = key THEN student ELSE store[k]]
                /\ order' \in Perms(DOMAIN store \cup {key})
                /\ Finish(c, StudentResponse(student))

\* a faulty create_student, for comparison: it inserts first and looks at what
\* insert displaced afterwards, so a rejected Create has replaced the record
CreateBodyOverwrite(c) ==
    /\ calls[c].pc = "locked" /\ calls[c].op = "Create"
    /\ LET student == calls[c].student
       IN  /\ store' = [k \in DOMAIN store \cup {student.id} |->
                            IF k = student.id THEN student ELSE store[k]]
           /\ IF student.id \in DOMAIN store
              THEN /\ order' = order
                   /\ Finish(c, Err(already_exists("Student with this ID already exists")))
              ELSE /\ order' \in Perms(DOMAIN store \cup {student.id})
                   /\ Finish(c, StudentResponse(student))

\* a faulty create_student, for comparison: it inserts without contains_key,
\* so a later Create of an id overwrites the record of an earlier one
CreateBodyBlind(c) ==
    /\ calls[c].pc = "locked" /\ calls[c].op = "Create"
    /\ LET student == calls[c].student
       IN  /\ store' = [k \in DOMAIN store \cup {student.id} |->
                            IF k = student.id THEN student ELSE store[k]]
           /\ order' \in Perms(DOMAIN store \cup {student.id})
           /\ Finish(c, StudentResponse(student))

\* lines 63-74, under the write lock: contains_key, insert, respond
CreateBody(c) ==
    /\ calls[c].pc = "locked" /\ calls[c].op = "Create"
    /\ LET student == calls[c].student
       IN  IF student.id \in DOMAIN store
           THEN /\ Finish(c, Err(already_exists("Student with this ID already exists")))
                /\ UNCHANGED <<store, order>>
           ELSE /\ store' = [k \in DOMAIN store \cup {student.id} |->
                                IF k = student.id THEN student ELSE store[k]]
                /\ order' \in Perms(DOMAIN store \cup {student.id})
                /\ Finish(c, StudentResponse(student))

-----------------------------------------------------------------------------
(* get_student *)

\* lines 81-85
GetInvoke(c, req) ==
    /\ calls[c].pc = "idle"
    /\ IF check_id(req.id).code # "Ok"
       THEN ReturnEarly(c, "Get", req, DefaultStudent, check_id(req.id))
       ELSE AwaitLock(c, "Get", req, DefaultStudent)

\* lines 89-97, under the read lock
GetBody(c) ==
    /\ calls[c].pc = "locked" /\ calls[c].op = "Get"
    /\ Finish(c, get_student(store, calls[c].req.id))
    /\ UNCHANGED <<store, order>>

-----------------------------------------------------------------------------
(* update_student *)

\* lines 104-111
UpdateInvoke(c, req) ==
    /\ calls[c].pc = "idle"
    /\ LET student == unwrap_or_default(req.student)
           valid == validate_student(student)
       IN  IF check_id(student.id).code # "Ok"
           THEN ReturnEarly(c, "Update", req, student, check_id(student.id))
           ELSE IF valid.code # "Ok"
           THEN ReturnEarly(c, "Update", req, student, valid)
           ELSE AwaitLock(c, "Update", req, student)

\* lines 115-124, under the write lock: get_mut and assign in place
UpdateBody(c) ==
    /\ calls[c].pc = "locked" /\ calls[c].op = "Update"
    /\ LET student == calls[c].student
       IN  IF student.id \in DOMAIN store
           THEN /\ store' = [store EXCEPT ![student.id] = student]
                /\ Finish(c, StudentResponse(student))
                /\ UNCHANGED order
           ELSE /\ Finish(c, Err(not_found("Student not found")))
                /\ UNCHANGED <<store, order>>

-----------------------------------------------------------------------------
(* delete_student *)

\* lines 131-135
DeleteInvoke(c, req) ==
    /\ calls[c].pc = "idle"
    /\ IF check_id(req.id).code # "Ok"
       THEN ReturnEarly(c, "Delete", req, DefaultStudent, check_id(req.id))
       ELSE AwaitLock(c, "Delete", req, DefaultStudent)

\* a faulty delete_student, for comparison: it answers for the record it
\* finds but leaves it in the table
DeleteBodyKeep(c) ==
    /\ calls[c].pc = "locked" /\ calls[c].op = "Delete"
    /\ LET id == calls[c].req.id
       IN  IF id \in DOMAIN store
           THEN /\ Finish(c, DeleteResponse(store[id]))
                /\ UNCHANGED <<store, order>>
           ELSE /\ Finish(c, Err(not_found("Student not found")))
                /\ UNCHANGED <<store, order>>

\* lines 139-148, under the write lock: remove and respond
DeleteBody(c) ==
    /\ calls[c].pc = "locked" /\ calls[c].op = "Delete"
    /\ LET id == calls[c].req.id
       IN  IF id \in DOMAIN store
           THEN /\ store' = [k \in DOMAIN store \ {id} |-> store[k]]
                /\ order' = Without(order, id)
                /\ Finish(c, DeleteResponse(store[id]))
           ELSE /\ Finish(c, Err(not_found("Student not found")))
                /\ UNCHANGED <<store, order>>

-----------------------------------------------------------------------------
(* list_students *)

\* lines 155-156: nothing fails before the lock
ListInvoke(c, req) ==
    /\ calls[c].pc = "idle"
    /\ AwaitLock(c, "List", req, DefaultStudent)

\* a faulty list_students, for comparison: each call walks the table in an
\* order of its own
ListBodyShuffle(c) ==
    /\ calls[c].pc = "locked" /\ calls[c].op = "List"
    /\ \E o \in Perms(DOMAIN store) :
            Finish(c, list_students(store, o, calls[c].req))
    /\ UNCHANGED <<store, order>>

\* lines 159-179, under the read lock; a panic unwinds and drops the guard
ListBody(c) ==
    /\ calls[c].pc = "locked" /\ calls[c].op = "List"
    /\ Finish(c, list_students(store, order, calls[c].req))
    /\ UNCHANGED <<store, order>>

\* the caller has its answer; the task is gone
Return(c) ==
    /\ calls[c].pc = "done"
    /\ calls' = [calls EXCEPT ![c] = IdleCall]
    /\ UNCHANGED <<store, order, lock, waiters>>

-----------------------------------------------------------------------------
(* The callers: the requests the model sends *)

\* the ids a caller sends: empty, blank, one of its own, one the service generated
CallerIds == {<<>>, <<" ">>, <<"a">>}

RequestIds == CallerIds \cup Uuids

\* the payloads a caller sends: two valid records that differ in every field,
\* one with a gpa that is not a number, one with an age out of range
Payloads(id) ==
    { NewStudent(id, <<"A">>, <<"e">>, 0, <<"m">>, F(0)),
      NewStudent(id, <<" ", "B">>, <<"f">>, 150, <<>>, F(400)),
      NewStudent(id, <<"A">>, <<"e">>, 0, <<"m">>, NaN),
      NewStudent(id, <<"A">>, <<"e">>, 151, <<"m">>, F(0)) }

CreateRequests ==
    {Request(None, <<>>, 0, <<>>)} \cup
    {Request(Some(s), <<>>, 0, <<>>) : s \in UNION {Payloads(id) : id \in CallerIds}}

UpdateRequests ==
    {Request(None, <<>>, 0, <<>>)} \cup
    {Request(Some(s), <<>>, 0, <<>>) : s \in UNION {Payloads(id) : id \in RequestIds}}

IdRequests == {Request(None, id, 0, <<>>) : id \in RequestIds}

PageSizes == {0, 1}

PageTokens == {<<>>, <<"1">>, <<"2">>}

ListRequests ==
    {Request(None, <<>>, n, tok) : n \in PageSizes, tok \in PageTokens}

\* the calls that may still insert a record
PendingCreates ==
    {d \in Calls : /\ calls[d].op = "Create"
                   /\ calls[d].pc \in {"waiting", "locked", "absent"}}

\* the callers stop sending records once the store holds MaxStudents of them
RoomFor(req) ==
    \/ unwrap_or_default(req.student).id \in DOMAIN store
    \/ Cardinality(DOMAIN store) + Cardinality(PendingCreates) < MaxStudents

\* every answer has reached its caller.  Return(c) changes nothing but the
\* finished task c, which no other step reads, so it commutes with every other
\* step: the model delivers an answer before the next step of any handler, and
\* loses no sequence of handler steps by it.
Delivered == \A d \in Calls : calls[d].pc # "done"

InvokeCreate(c) ==
    /\ Delivered
    /\ \E req \in CreateRequests : RoomFor(req) /\ CreateInvoke(c, req)
    /\ UNCHANGED aux

InvokeGet(c) ==
    Delivered /\ (\E req \in IdRequests : GetInvoke(c, req)) /\ UNCHANGED aux

InvokeUpdate(c) ==
    Delivered /\ (\E req \in UpdateRequests : UpdateInvoke(c, req)) /\ UNCHANGED aux

InvokeDelete(c) ==
    Delivered /\ (\E req \in IdRequests : DeleteInvoke(c, req)) /\ UNCHANGED aux

InvokeList(c) ==
    Delivered /\ (\E req \in ListRequests : ListInvoke(c, req)) /\ UNCHANGED aux

Lock(c) == Delivered /\ Acquire(c) /\ UNCHANGED aux

RunCreate(c) == Delivered /\ CreateBody(c) /\ UNCHANGED aux

RunGet(c) == Delivered /\ GetBody(c) /\ UNCHANGED aux

RunUpdate(c) == Delivered /\ UpdateBody(c) /\ UNCHANGED aux

RunDelete(c) == Delivered /\ DeleteBody(c) /\ UNCHANGED aux

RunList(c) == Delivered /\ ListBody(c) /\ UNCHANGED aux

Deliver(c) == Return(c) /\ UNCHANGED aux

\* the service under NumCallers concurrent callers
Next ==
    \E c \in Callers :
        \/ InvokeCreate(c)
        \/ InvokeGet(c)
        \/ InvokeUpdate(c)
        \/ InvokeDelete(c)
        \/ InvokeList(c)
        \/ Lock(c)
        \/ RunCreate(c)
        \/ RunGet(c)
        \/ RunUpdate(c)
        \/ RunDelete(c)
        \/ RunList(c)
        \/ Deliver(c)

Spec == Init /\ [][Next]_vars

-----------------------------------------------------------------------------
(* Concurrent creates: every task runs one create_student on a new service *)

\* the tasks differ in nothing but their number: they are numbered in the
\* order their calls reach the service
RaceInvoke(c) ==
    /\ \A d \in Calls : d < c => calls[d].pc # "idle"
    /\ \E req \in CreateRequests : CreateInvoke(c, req)
    /\ UNCHANGED aux

RaceLock(c) == Acquire(c) /\ UNCHANGED aux

RaceRun(c) == CreateBody(c) /\ UNCHANGED aux

NextCreates == \E c \in Calls : RaceInvoke(c) \/ RaceLock(c) \/ RaceRun(c)

SpecCreates == Init /\ [][NextCreates]_vars

-----------------------------------------------------------------------------
(* Paging: one caller walks the pages of a store that nothing mutates *)

\* number of records of the largest store paged through
MaxPaged == 5

PagedIds == {<<Digits[i + 1]>> : i \in 1..MaxPaged}

\* the stores create_student can have built: each key non-empty, each record
\* valid and stored under its own id, the table in any iteration order
PagedStores ==
    {[k \in K |-> NewStudent(k, <<"A">>, <<"e">>, 0, <<"m">>, F(0))] : K \in SUBSET PagedIds}

PagedSizes == {-1, 0, 1, 2, 3}

InitPaging ==
    /\ store \in PagedStores
    /\ order \in Perms(DOMAIN store)
    /\ lock = [writer |-> 0, readers |-> {}]
    /\ waiters = <<>>
    /\ calls = [c \in Calls |-> IdleCall]
    /\ pager \in {NewPager(n) : n \in PagedSizes}
    /\ watch = NoWatch

\* the caller asks for the next page, with the token of the last answer
PagerInvoke(c) ==
    /\ ~pager.finished /\ ~pager.failed
    /\ \A d \in Calls : calls[d].pc = "idle"
    /\ ListInvoke(c, Request(None, <<>>, pager.page_size, pager.token))
    /\ UNCHANGED aux

PagerLock(c) == Acquire(c) /\ UNCHANGED aux

PagerRun(c) == ListBody(c) /\ UNCHANGED aux

\* the caller keeps the page and the token; an empty token ends the walk
PagerReceive(c) ==
    /\ Return(c)
    /\ LET resp == calls[c].resp
       IN  IF resp.status.code = "Ok"
           THEN pager' = [pager EXCEPT !.pages = Append(@, resp.students),
                                       !.token = resp.next_page_token,
                                       !.finished = IsEmpty(resp.next_page_token)]
           ELSE pager' = [pager EXCEPT !.failed = TRUE]
    /\ UNCHANGED watch

NextPaging ==
    \E c \in Calls : PagerInvoke(c) \/ PagerLock(c) \/ PagerRun(c) \/ PagerReceive(c)

SpecPaging == InitPaging /\ [][NextPaging]_vars

-----------------------------------------------------------------------------
(* One caller: a call is sent when the answer to the last one has arrived *)

\* the payloads of the one caller: the two valid records, which hold the
\* bounds 0 and 150 of age and 0.0 and 4.0 of gpa, and records that differ from
\* the first in one field: a name or an email that is empty or blank, an age
\* or a gpa just out of range, a gpa that is not a number; and one record that
\* breaks every rule
SeqPayloads(id) ==
    { NewStudent(id, <<"A">>, <<"e">>, 0, <<"m">>, F(0)),
      NewStudent(id, <<" ", "B">>, <<"f">>, 150, <<>>, F(400)),
      NewStudent(id, <<>>, <<"e">>, 0, <<"m">>, F(0)),
      NewStudent(id, <<" ">>, <<"e">>, 0, <<"m">>, F(0)),
      NewStudent(id, <<"A">>, <<>>, 0, <<"m">>, F(0)),
      NewStudent(id, <<"A">>, <<" ">>, 0, <<"m">>, F(0)),
      NewStudent(id, <<"A">>, <<"e">>, -1, <<"m">>, F(0)),
      NewStudent(id, <<"A">>, <<"e">>, 151, <<"m">>, F(0)),
      NewStudent(id, <<"A">>, <<"e">>, 0, <<"m">>, F(-1)),
      NewStudent(id, <<"A">>, <<"e">>, 0, <<"m">>, F(401)),
      NewStudent(id, <<"A">>, <<"e">>, 0, <<"m">>, NaN),
      NewStudent(id, <<" ">>, <<>>, 151, <<>>, F(401)) }

SeqCreateRequests ==
    {Request(None, <<>>, 0, <<>>)} \cup
    {Request(Some(s), <<>>, 0, <<>>) : s \in UNION {SeqPayloads(id) : id \in CallerIds}}

SeqUpdateRequests ==
    {Request(None, <<>>, 0, <<>>)} \cup
    {Request(Some(s), <<>>, 0, <<>>) : s \in UNION {SeqPayloads(id) : id \in RequestIds}}

SeqPageSizes == {-1, 0, 1, 2}

\* page tokens: offsets up to and past the end, and strings that are no offset
SeqPageTokens ==
    {<<>>, <<"0">>, <<"1">>, <<"2">>, <<"3">>, <<"0", "1">>, <<"+", "1">>,
     <<"-", "1">>, <<" ", "1">>, <<"1", "x">>, <<"x">>, <<"+">>}

SeqListRequests ==
    {Request(None, <<>>, n, tok) : n \in SeqPageSizes, tok \in SeqPageTokens}

\* the history keeps, or starts to keep, the record a Create returned; a
\* Create of the id whose removal it kept ends that
WatchCreate(resp) ==
    IF resp.status.code # "Ok" THEN watch' = watch
    ELSE IF watch.kind = "deleted" /\ watch.student.id = resp.student[1].id
    THEN watch' \in {NoWatch, Watch("created", resp.student[1])}
    ELSE watch' \in {watch, Watch("created", resp.student[1])}

\* an Update of the id ends the history of a created record
WatchUpdate(resp) ==
    IF /\ resp.status.code = "Ok"
       /\ watch.kind = "created"
       /\ watch.student.id = resp.student[1].id
    THEN watch' = NoWatch
    ELSE watch' = watch

\* the history keeps, or starts to keep, the id a Delete removed; a Delete of
\* the id ends the history of a created record
WatchDelete(resp, removed) ==
    IF resp.status.code # "Ok" THEN watch' = watch
    ELSE IF watch.kind = "created" /\ watch.student.id = removed.id
    THEN watch' \in {NoWatch, Watch("deleted", removed)}
    ELSE watch' \in {watch, Watch("deleted", removed)}

Idle == \A d \in Calls : calls[d].pc = "idle"

SeqInvokeCreate(c) ==
    /\ Idle
    /\ \E req \in SeqCreateRequests : RoomFor(req) /\ CreateInvoke(c, req)
    /\ UNCHANGED aux

SeqInvokeGet(c) ==
    Idle /\ (\E req \in IdRequests : GetInvoke(c, req)) /\ UNCHANGED aux

SeqInvokeUpdate(c) ==
    Idle /\ (\E req \in SeqUpdateRequests : UpdateInvoke(c, req)) /\ UNCHANGED aux

SeqInvokeDelete(c) ==
    Idle /\ (\E req \in IdRequests : DeleteInvoke(c, req)) /\ UNCHANGED aux

SeqInvokeList(c) ==
    Idle /\ (\E req \in SeqListRequests : ListInvoke(c, req)) /\ UNCHANGED aux

SeqLock(c) == Acquire(c) /\ UNCHANGED aux

SeqRunCreate(c) ==
    CreateBody(c) /\ WatchCreate(calls'[c].resp) /\ UNCHANGED pager

SeqRunGet(c) == GetBody(c) /\ UNCHANGED aux

SeqRunUpdate(c) ==
    UpdateBody(c) /\ WatchUpdate(calls'[c].resp) /\ UNCHANGED pager

SeqRunDelete(c) ==
    /\ DeleteBody(c)
    /\ WatchDelete(calls'[c].resp,
                   IF calls[c].req.id \in DOMAIN store
                   THEN store[calls[c].req.id] ELSE DefaultStudent)
    /\ UNCHANGED pager

SeqRunList(c) == ListBody(c) /\ UNCHANGED aux

SeqDeliver(c) == Return(c) /\ UNCHANGED aux

\* the task that serves the one caller
SeqCallers == {1}

NextSeq ==
    \E c \in SeqCallers :
        \/ SeqInvokeCreate(c)
        \/ SeqInvokeGet(c)
        \/ SeqInvokeUpdate(c)
        \/ SeqInvokeDelete(c)
        \/ SeqInvokeList(c)
        \/ SeqLock(c)
        \/ SeqRunCreate(c)
        \/ SeqRunGet(c)
        \/ SeqRunUpdate(c)
        \/ SeqRunDelete(c)
        \/ SeqRunList(c)
        \/ SeqDeliver(c)

SpecSeq == Init /\ [][NextSeq]_vars

-----------------------------------------------------------------------------
(* What the claims speak of *)

\* a string that is empty or holds white space only
Blank(s) == \A i \in 1..Len(s) : s[i] \in WhiteSpace

\* the validation rules as the specification words them
MeetsRules(s) ==
    /\ ~Blank(s.name)
    /\ ~Blank(s.email)
    /\ 0 <= s.age /\ s.age <= 150
    /\ ~s.gpa.nan /\ 0 <= s.gpa.v /\ s.gpa.v <= 400

\* the record a Create or Update request carries
Sent(c) == unwrap_or_default(calls[c].req.student)

\* task c has returned from handler op
Done(c, op) == calls[c].pc = "done" /\ calls[c].op = op

DoneOk(c, op) == Done(c, op) /\ calls[c].resp.status.code = "Ok"

Code(c) == calls[c].resp.status.code

\* task c returns from handler op in this step
Returns(c, op) ==
    calls[c].pc # "done" /\ calls'[c].pc = "done" /\ calls'[c].op = op

ReturnsOk(c, op) == Returns(c, op) /\ calls'[c].resp.status.code = "Ok"

\* the answer of get_student to a request for id, run against the map st
GetAnswer(st, id) ==
    IF check_id(id).code # "Ok" THEN Err(check_id(id)) ELSE get_student(st, id)

\* a page token that is a decimal offset, and the offset it stands for
IsOffset(tok) == Len(tok) > 0 /\ \A i \in 1..Len(tok) : IsDigit(tok[i])

OffsetOf(tok) == IF IsEmpty(tok) THEN 0 ELSE DigitsValue(tok)

\* the slice [from, to) of a sequence, zero-based; empty when from >= to
Slice(seq, from, to) ==
    [i \in 1..(IF to > from THEN to - from ELSE 0) |-> seq[from + i]]

RECURSIVE Flatten(_)
Flatten(pages) ==
    IF Len(pages) = 0 THEN <<>> ELSE Head(pages) \o Flatten(Tail(pages))

-----------------------------------------------------------------------------
(* C1 *)

\* C1: a Get of the id of a record that a Create returned, with no Update or
\* Delete of that id since, succeeds and returns a record equal to the one the
\* Create returned, whether the id was generated or supplied by the caller.
\* (watch holds such a record: it is dropped when an Update or a Delete of its
\* id succeeds.)
C1_GetReturnsCreated ==
    \A c \in Calls :
        (Done(c, "Get") /\ watch.kind = "created"
                        /\ calls[c].req.id = watch.student.id)
            => calls[c].resp = StudentResponse(watch.student)

-----------------------------------------------------------------------------
(* C2 *)

\* the Create calls sent with id that got past validation
Racers(id) ==
    {c \in Calls : /\ calls[c].op = "Create"
                   /\ Sent(c).id = id
                   /\ \/ calls[c].pc \in {"waiting", "locked"}
                      \/ calls[c].pc = "done" /\ Code(c) # "InvalidArgument"}

\* C2: of the concurrent Create calls that carry the same caller-supplied id,
\* exactly one succeeds and every other fails with AlreadyExists, in every
\* interleaving; the stored record is the one of the call that succeeded and
\* no later Create overwrites it.
C2_OneCreateWins ==
    \A id \in CallerIds \ {<<>>} :
        LET returned == {c \in Racers(id) : calls[c].pc = "done"}
            won == {c \in returned : Code(c) = "Ok"}
        IN  /\ \A c \in returned : Code(c) \in {"Ok", "AlreadyExists"}
            /\ returned # {} => Cardinality(won) = 1
            /\ returned = {} => id \notin DOMAIN store
            /\ \A w \in won :
                /\ calls[w].resp.student = Some(Sent(w))
                /\ id \in DOMAIN store
                /\ store[id] = Sent(w)

\* three Creates of the id "a" with records that differ have all returned
C2_Witness ==
    \E c, d \in Calls :
        /\ c # d
        /\ Racers(<<"a">>) = Calls
        /\ \A e \in Calls : calls[e].pc = "done"
        /\ Sent(c) # Sent(d)
        /\ Code(c) = "Ok" /\ Code(d) = "AlreadyExists"

-----------------------------------------------------------------------------
(* C3 *)

\* the Create calls that got past validation
Accepted ==
    {c \in Calls : /\ calls[c].op = "Create"
                   /\ \/ calls[c].pc \in {"waiting", "locked"}
                      \/ calls[c].pc = "done" /\ Code(c) # "InvalidArgument"}

\* C3: when the concurrent Creates, of pairwise distinct ids, have all
\* returned, the store holds exactly their records, and a Get of each id
\* returns its record.
C3_NoLostInsert ==
    ( /\ \A c \in Calls : calls[c].pc = "done"
      /\ \A c, d \in Accepted : c # d => calls[c].student.id # calls[d].student.id )
    =>  /\ DOMAIN store = {calls[c].student.id : c \in Accepted}
        /\ \A c \in Accepted :
            /\ calls[c].resp = StudentResponse(calls[c].student)
            /\ store[calls[c].student.id] = calls[c].student
            /\ GetAnswer(store, calls[c].student.id) = StudentResponse(calls[c].student)

-----------------------------------------------------------------------------
(* C4 *)

\* C4: a List whose token is an offset greater than or equal to the number of
\* stored records answers with success, an empty page and an empty next token.
C4_PastTheEnd ==
    \A c \in Calls :
        ( /\ Done(c, "List")
          /\ IsOffset(calls[c].req.page_token)
          /\ OffsetOf(calls[c].req.page_token) >= Cardinality(DOMAIN store) )
        =>  /\ Code(c) = "Ok"
            /\ calls[c].resp.students = <<>>
            /\ calls[c].resp.next_page_token = <<>>

-----------------------------------------------------------------------------
(* C5 *)

\* the number of pages a walk with page size n over len records takes
PagesOf(len, n) == IF len = 0 THEN 1 ELSE (len + n - 1) \div n

\* C5: a caller that starts List with the empty token and a fixed page size,
\* and passes each returned token back, while nothing mutates the store: no
\* call fails; the pages received so far are, end to end, a prefix of the
\* enumeration, so each page begins where the one before ended; the token held
\* is the offset reached; every page but the last is full; the walk ends, on
\* an empty token, after the number of pages the page size gives; and then the
\* pages are the whole enumeration, each record once.
C5_PagingRoundTrip ==
    LET all == Values(store, order)
        got == Flatten(pager.pages)
        n == IF pager.page_size > 0 THEN pager.page_size ELSE 10
    IN  /\ ~pager.failed
        /\ Len(got) <= Len(all)
        /\ got = SubSeq(all, 1, Len(got))
        /\ \A i \in 1..Len(pager.pages) :
              /\ Len(pager.pages[i]) <= n
              /\ i < Len(pager.pages) => Len(pager.pages[i]) = n
        /\ Len(pager.pages) <= PagesOf(Len(all), n)
        /\ (~pager.finished /\ Len(pager.pages) > 0) =>
              /\ IsOffset(pager.token)
              /\ OffsetOf(pager.token) = Len(got)
              /\ Len(got) < Len(all)
        /\ pager.finished =>
              /\ got = all
              /\ Len(pager.pages) = PagesOf(Len(all), n)
              /\ \A i, j \in 1..Len(got) : got[i].id = got[j].id => i = j

\* page size 2 over 5 records: the walk has ended with pages of 2, 2 and 1
C5_Witness ==
    /\ pager.finished
    /\ pager.page_size = 2
    /\ Cardinality(DOMAIN store) = 5
    /\ Len(pager.pages) = 3
    /\ Len(pager.pages[1]) = 2 /\ Len(pager.pages[2]) = 2 /\ Len(pager.pages[3]) = 1

-----------------------------------------------------------------------------
(* C6 *)

\* C6: a List with page size n and an offset token answers, for the store as
\* it is: totalCount the number of records; the page the slice
\* [offset, min(offset + size, length)) of the enumeration, size being n if
\* n > 0 and 10 otherwise; nextPageToken the decimal string of the slice's end
\* when that is less than length, and empty otherwise.
C6_ListAnswer ==
    \A c \in Calls :
        ( /\ Done(c, "List")
          /\ IsEmpty(calls[c].req.page_token) \/ IsOffset(calls[c].req.page_token) )
        =>  LET all == Values(store, order)
                offset == OffsetOf(calls[c].req.page_token)
                size == IF calls[c].req.page_size > 0 THEN calls[c].req.page_size ELSE 10
                end == Min(offset + size, Len(all))
            IN  /\ Code(c) = "Ok"
                /\ calls[c].resp.total_count = Len(all)
                /\ calls[c].resp.students = Slice(all, offset, end)
                /\ calls[c].resp.next_page_token =
                      IF end < Len(all) THEN to_string(end) ELSE <<>>

-----------------------------------------------------------------------------
(* C7 *)

\* C7: an Update with a valid record whose id is present answers with the
\* record and leaves it stored under that id, equal to the incoming record in
\* every field, the keys of the store unchanged; an Update with a valid record
\* whose id is not present changes nothing, and fails with NotFound (with
\* InvalidArgument when it names no id at all).
C7_UpdateReplaces ==
    [][\A c \in Calls :
        (Returns(c, "Update") /\ MeetsRules(calls'[c].student)) =>
            LET incoming == calls'[c].student
            IN  IF incoming.id \in DOMAIN store
                THEN /\ calls'[c].resp = StudentResponse(incoming)
                     /\ DOMAIN store' = DOMAIN store
                     /\ store'[incoming.id] = incoming
                     /\ \A k \in DOMAIN store \ {incoming.id} : store'[k] = store[k]
                ELSE /\ store' = store
                     /\ calls'[c].resp.status.code =
                          IF Blank(incoming.id) THEN "InvalidArgument" ELSE "NotFound"
      ]_vars

-----------------------------------------------------------------------------
(* C8 *)

\* C8: once a Delete of an id has succeeded, and until a Create inserts the
\* id again, every Get of the id and every further Delete of the id fails
\* with NotFound.  (watch holds such an id: it is dropped when a Create of the
\* id succeeds.)
C8_DeletedStaysNotFound ==
    [][\A c \in Calls :
        ( /\ Returns(c, "Get") \/ Returns(c, "Delete")
          /\ watch.kind = "deleted"
          /\ calls'[c].req.id = watch.student.id )
        => calls'[c].resp.status.code = "NotFound"
      ]_vars

\* a Delete of an id has succeeded, no Create of it since, and a second Delete
\* of the id has just failed with NotFound
C8_Witness ==
    \E c \in Calls :
        /\ Done(c, "Delete")
        /\ watch.kind = "deleted"
        /\ calls[c].req.id = watch.student.id
        /\ Code(c) = "NotFound"

-----------------------------------------------------------------------------
(* C9 *)

\* C9: Create and Update reject with InvalidArgument exactly the records that
\* break the rules: a record passes validation if and only if its name and
\* its email are non-blank, 0 <= age <= 150 and 0.0 <= gpa <= 4.0.  (An Update
\* without an id is rejected before its record is looked at.)
C9_ValidationIsTheRules ==
    \A c \in Calls :
        /\ Done(c, "Create") =>
              (Code(c) = "InvalidArgument" <=> ~MeetsRules(Sent(c)))
        /\ (Done(c, "Update") /\ ~Blank(Sent(c).id)) =>
              (Code(c) = "InvalidArgument" <=> ~MeetsRules(Sent(c)))

-----------------------------------------------------------------------------
(* C10 *)

\* C10: a Create of a valid record with a blank id succeeds, never failing
\* with AlreadyExists, and returns the record under an id that is not empty
\* and was generated by the service, not a key the store held before.
C10_BlankIdIsGenerated ==
    [][\A c \in Calls :
        ( /\ Returns(c, "Create")
          /\ MeetsRules(unwrap_or_default(calls'[c].req.student))
          /\ Blank(unwrap_or_default(calls'[c].req.student).id) )
        =>  /\ calls'[c].resp.status.code = "Ok"
            /\ ~IsEmpty(calls'[c].resp.student[1].id)
            /\ calls'[c].resp.student[1].id \in Uuids
            /\ calls'[c].resp.student[1].id \notin DOMAIN store
      ]_vars

-----------------------------------------------------------------------------
(* C11 *)

\* the byte of a character, for the characters the ids are made of
CharCode(ch) ==
    CASE ch = "\t" -> 9
      [] ch = " " -> 32
      [] IsDigit(ch) -> 48 + DigitVal(ch)
      [] ch = "a" -> 97
      [] ch = "u" -> 117
      [] OTHER -> 127

\* a < b in the order of strings: byte by byte, a proper prefix first
StrLt(a, b) ==
    \E i \in 1..(Min(Len(a), Len(b)) + 1) :
        /\ \A j \in 1..(i - 1) : a[j] = b[j]
        /\ \/ i > Len(a) /\ i <= Len(b)
           \/ i <= Len(a) /\ i <= Len(b) /\ CharCode(a[i]) < CharCode(b[i])

\* the records of st in ascending order of id
SortedById(st) ==
    LET keys == CHOOSE f \in Perms(DOMAIN st) :
                    \A i, j \in 1..Cardinality(DOMAIN st) : i < j => StrLt(f[i], f[j])
    IN  [i \in 1..Cardinality(DOMAIN st) |-> st[keys[i]]]

\* C11: the page a List returns is the slice, at the offset its token names,
\* of the records sorted by id: the records of a page are in ascending order
\* of id.
C11_PagesSortedById ==
    \A c \in Calls :
        ( /\ Done(c, "List") /\ Code(c) = "Ok"
          /\ IsEmpty(calls[c].req.page_token) \/ IsOffset(calls[c].req.page_token) )
        =>  LET all == SortedById(store)
                offset == OffsetOf(calls[c].req.page_token)
                size == IF calls[c].req.page_size > 0 THEN calls[c].req.page_size ELSE 10
                end == Min(offset + size, Len(all))
            IN  /\ calls[c].resp.students = Slice(all, offset, end)
                /\ \A i, j \in 1..Len(calls[c].resp.students) :
                      i < j => StrLt(calls[c].resp.students[i].id,
                                     calls[c].resp.students[j].id)

-----------------------------------------------------------------------------
(* C12 *)

\* history of one List call: the request and the answer it got, as long as no
\* Create, Update or Delete has succeeded since, and whether a later List call
\* has sent the same request
Listed(req, resp) ==
    [kind |-> "listed", student |-> DefaultStudent, req |-> req, resp |-> resp,
     again |-> FALSE]

\* a Create, Update or Delete that succeeds ends the history of a List call
WatchMutation(resp) ==
    watch' = IF resp.status.code = "Ok" THEN NoWatch ELSE watch

StableInvokeCreate(c) ==
    /\ Idle
    /\ \E req \in CreateRequests : RoomFor(req) /\ CreateInvoke(c, req)
    /\ UNCHANGED aux

StableInvokeUpdate(c) ==
    Idle /\ (\E req \in UpdateRequests : UpdateInvoke(c, req)) /\ UNCHANGED aux

StableInvokeList(c) ==
    Idle /\ (\E req \in ListRequests : ListInvoke(c, req)) /\ UNCHANGED aux

StableRunCreate(c) ==
    CreateBody(c) /\ WatchMutation(calls'[c].resp) /\ UNCHANGED pager

StableRunUpdate(c) ==
    UpdateBody(c) /\ WatchMutation(calls'[c].resp) /\ UNCHANGED pager

StableRunDelete(c) ==
    DeleteBody(c) /\ WatchMutation(calls'[c].resp) /\ UNCHANGED pager

\* the history keeps the answer of the earlier List call, or starts to keep
\* the answer of this one
StableRunList(c) ==
    /\ ListBody(c)
    /\ \/ watch' = IF watch.kind = "listed" /\ watch.req = calls[c].req
                    THEN [watch EXCEPT !.again = TRUE]
                    ELSE watch
       \/ watch' = Listed(calls[c].req, calls'[c].resp)
    /\ UNCHANGED pager

\* one caller: any sequence of Create, Get, Update, Delete and List calls
NextStable ==
    \E c \in SeqCallers :
        \/ StableInvokeCreate(c)
        \/ SeqInvokeGet(c)
        \/ StableInvokeUpdate(c)
        \/ SeqInvokeDelete(c)
        \/ StableInvokeList(c)
        \/ SeqLock(c)
        \/ StableRunCreate(c)
        \/ SeqRunGet(c)
        \/ StableRunUpdate(c)
        \/ StableRunDelete(c)
        \/ StableRunList(c)
        \/ SeqDeliver(c)

SpecStable == Init /\ [][NextStable]_vars

\* C12: a List call with the page size and token of an earlier List call, no
\* Create, Update or Delete having succeeded between the two, gets the answer
\* the earlier call got: the same records in the same order, the same next
\* token, the same total count.
C12_StableEnumeration ==
    \A c \in Calls :
        ( /\ Done(c, "List")
          /\ watch.kind = "listed"
          /\ calls[c].req = watch.req )
        => calls[c].resp = watch.resp

\* two records are stored; a List call of page size 1 has returned a page that
\* an earlier call with the same request had returned
C12_Witness ==
    \E c \in Calls :
        /\ Done(c, "List")
        /\ watch.kind = "listed" /\ watch.again
        /\ calls[c].req = watch.req
        /\ calls[c].req.page_size = 1
        /\ Cardinality(DOMAIN store) = 2
        /\ Code(c) = "Ok"
        /\ Len(calls[c].resp.students) = 1

-----------------------------------------------------------------------------
(* C13 *)

\* a token that is not a decimal non-negative integer: not empty, and not a
\* run of decimal digits, with or without a "+" before it
Malformed(tok) ==
    /\ ~IsEmpty(tok)
    /\ ~IsOffset(tok)
    /\ ~(Head(tok) = "+" /\ IsOffset(Tail(tok)))

\* C13: a List with a malformed token does not fail, and answers as a List
\* with the empty token answers for the same store and page size: with the
\* first page.
C13_MalformedTokenIsZero ==
    \A c \in Calls :
        (Done(c, "List") /\ Malformed(calls[c].req.page_token))
        =>  LET all == Values(store, order)
                size == IF calls[c].req.page_size > 0 THEN calls[c].req.page_size ELSE 10
                end == Min(size, Len(all))
            IN  /\ Code(c) = "Ok"
                /\ calls[c].resp =
                      list_students(store, order,
                                    [calls[c].req EXCEPT !.page_token = <<>>])
                /\ calls[c].resp.total_count = Len(all)
                /\ calls[c].resp.students = Slice(all, 0, end)
                /\ calls[c].resp.next_page_token =
                      IF end < Len(all) THEN to_string(end) ELSE <<>>

\* two records are stored, and a List of page size 1 with the token "1x" has
\* returned the first of them and the token "1"
C13_Witness ==
    \E c \in Calls :
        /\ Done(c, "List")
        /\ calls[c].req.page_token = <<"1", "x">>
        /\ calls[c].req.page_size = 1
        /\ Cardinality(DOMAIN store) = 2
        /\ calls[c].resp.students = <<store[order[1]]>>
        /\ calls[c].resp.next_page_token = <<"1">>

-----------------------------------------------------------------------------
(* C14 *)

\* C14: every record of the store meets the validation rules, in every state
\* that concurrent Create, Get, Update, Delete and List calls can reach.
C14_StoredRecordsMeetRules ==
    \A k \in DOMAIN store : MeetsRules(store[k])

-----------------------------------------------------------------------------
(* C15 *)

\* C15: a call that returns a failure leaves the store as it was, every key
\* and every record: no step of a call changes the store but the return of a
\* Create, Update or Delete that succeeds.  So a Create or Update rejected with
\* InvalidArgument, a Create rejected with AlreadyExists, and an Update, Delete
\* or Get rejected with NotFound or InvalidArgument change nothing.
C15_FailureChangesNothing ==
    [][\A c \in Calls :
        ( /\ calls'[c] # calls[c]
          /\ ~\E op \in WriteOps : ReturnsOk(c, op) )
        => store' = store /\ order' = order
      ]_vars

\* a Create of a stored id has been rejected with AlreadyExists, and the
\* record stored under the id is not the one the Create carried
C15_Witness ==
    \E c \in Calls :
        /\ Done(c, "Create") /\ Code(c) = "AlreadyExists"
        /\ Sent(c).id \in DOMAIN store
        /\ store[Sent(c).id] # Sent(c)

-----------------------------------------------------------------------------
(* The handlers one map access at a time: between the lock and the return a  *)
(* handler reaches the map once or twice, and nothing but the lock keeps     *)
(* another handler from running between the two.                             *)

\* line 64: contains_key
CreateLook(c) ==
    /\ calls[c].pc = "locked" /\ calls[c].op = "Create"
    /\ IF calls[c].student.id \in DOMAIN store
       THEN Finish(c, Err(already_exists("Student with this ID already exists")))
       ELSE /\ calls' = [calls EXCEPT ![c].pc = "absent"]
            /\ UNCHANGED <<lock, waiters>>
    /\ UNCHANGED <<store, order>>

\* lines 68-74: insert, respond
CreateInsert(c) ==
    /\ calls[c].pc = "absent"
    /\ LET student == calls[c].student
       IN  /\ store' = [k \in DOMAIN store \cup {student.id} |->
                            IF k = student.id THEN student ELSE store[k]]
           /\ order' \in IF student.id \in DOMAIN store
                         THEN {order}
                         ELSE Perms(DOMAIN store \cup {student.id})
           /\ Finish(c, StudentResponse(student))

\* line 115: get_mut
UpdateLook(c) ==
    /\ calls[c].pc = "locked" /\ calls[c].op = "Update"
    /\ IF calls[c].student.id \in DOMAIN store
       THEN /\ calls' = [calls EXCEPT ![c].pc = "found"]
            /\ UNCHANGED <<lock, waiters>>
       ELSE Finish(c, Err(not_found("Student not found")))
    /\ UNCHANGED <<store, order>>

\* lines 117-121: *existing_student = student.clone(), respond.  The borrow
\* of the entry outlives nothing but the guard; were the entry gone, the write
\* would land in a slot the table no longer holds.
UpdateAssign(c) ==
    /\ calls[c].pc = "found"
    /\ LET student == calls[c].student
       IN  /\ store' = [k \in DOMAIN store |->
                            IF k = student.id THEN student ELSE store[k]]
           /\ Finish(c, StudentResponse(student))
    /\ UNCHANGED order

\* lines 162-179 on the vector students that line 159 collected
list_page(students, req) ==
    LET page_size == EffectivePageSize(req.page_size)
        total_count == Len(students)
        parsed == parse_usize(req.page_token)
        start_index == IF Len(parsed) = 0 THEN 0 ELSE parsed[1]
        end_index == Min(start_index + page_size, Len(students))
    IN  IF start_index > end_index
        THEN Err(Panicked)
        ELSE ListResponse(
                SubSeq(students, start_index + 1, end_index),
                IF end_index < Len(students) THEN to_string(end_index) ELSE <<>>,
                total_count)

\* line 159: store.values().cloned().collect() into the local students
ListCollect(c) ==
    /\ calls[c].pc = "locked" /\ calls[c].op = "List"
    /\ calls' = [calls EXCEPT ![c].pc = "collected",
                              ![c].resp = [NoReply EXCEPT !.students = Values(store, order)]]
    /\ UNCHANGED <<store, order, lock, waiters>>

\* lines 162-179: the count, the page and the token, from students
ListRespond(c) ==
    /\ calls[c].pc = "collected"
    /\ Finish(c, list_page(calls[c].resp.students, calls[c].req))
    /\ UNCHANGED <<store, order>>

LookCreate(c) == Delivered /\ CreateLook(c) /\ UNCHANGED aux

InsertCreate(c) == Delivered /\ CreateInsert(c) /\ UNCHANGED aux

LookUpdate(c) == Delivered /\ UpdateLook(c) /\ UNCHANGED aux

AssignUpdate(c) == Delivered /\ UpdateAssign(c) /\ UNCHANGED aux

CollectList(c) == Delivered /\ ListCollect(c) /\ UNCHANGED aux

RespondList(c) == Delivered /\ ListRespond(c) /\ UNCHANGED aux

\* the requests of the concurrent callers: records that pass validation, under
\* one id of the callers' or under an id the service generates, so that the
\* calls meet on the same keys
AtomicRecords(id) ==
    { NewStudent(id, <<"A">>, <<"e">>, 0, <<"m">>, F(0)),
      NewStudent(id, <<" ", "B">>, <<"f">>, 150, <<>>, F(400)) }

AtomicCreateRequests ==
    {Request(Some(s), <<>>, 0, <<>>) :
        s \in {NewStudent(<<>>, <<"A">>, <<"e">>, 0, <<"m">>, F(0))} \cup AtomicRecords(<<"a">>)}

AtomicUpdateRequests ==
    {Request(Some(s), <<>>, 0, <<>>) : s \in AtomicRecords(<<"a">>)}

AtomicIdRequests == {Request(None, <<"a">>, 0, <<>>)}

AtomicListRequests == {Request(None, <<>>, 1, <<>>)}

AtomicInvokeCreate(c) ==
    /\ Delivered
    /\ \E req \in AtomicCreateRequests : RoomFor(req) /\ CreateInvoke(c, req)
    /\ UNCHANGED aux

AtomicInvokeGet(c) ==
    Delivered /\ (\E req \in AtomicIdRequests : GetInvoke(c, req)) /\ UNCHANGED aux

AtomicInvokeUpdate(c) ==
    Delivered /\ (\E req \in AtomicUpdateRequests : UpdateInvoke(c, req)) /\ UNCHANGED aux

AtomicInvokeDelete(c) ==
    Delivered /\ (\E req \in AtomicIdRequests : DeleteInvoke(c, req)) /\ UNCHANGED aux

AtomicInvokeList(c) ==
    Delivered /\ (\E req \in AtomicListRequests : ListInvoke(c, req)) /\ UNCHANGED aux

\* the service under NumCallers concurrent callers, one map access a step
NextAtomic ==
    \E c \in Callers :
        \/ AtomicInvokeCreate(c)
        \/ AtomicInvokeGet(c)
        \/ AtomicInvokeUpdate(c)
        \/ AtomicInvokeDelete(c)
        \/ AtomicInvokeList(c)
        \/ Lock(c)
        \/ LookCreate(c)
        \/ InsertCreate(c)
        \/ RunGet(c)
        \/ LookUpdate(c)
        \/ AssignUpdate(c)
        \/ RunDelete(c)
        \/ CollectList(c)
        \/ RespondList(c)
        \/ Deliver(c)

SpecAtomic == Init /\ [][NextAtomic]_vars

-----------------------------------------------------------------------------
(* C16 *)

\* what a call answers when it runs alone, in one step, on the table st
AtomicAnswer(st, ord, call) ==
    CASE call.op = "Create" ->
            IF call.student.id \in DOMAIN st
            THEN Err(already_exists("Student with this ID already exists"))
            ELSE StudentResponse(call.student)
      [] call.op = "Get" ->
            IF call.req.id \in DOMAIN st
            THEN StudentResponse(st[call.req.id])
            ELSE Err(not_found("Student not found"))
      [] call.op = "Update" ->
            IF call.student.id \in DOMAIN st
            THEN StudentResponse(call.student)
            ELSE Err(not_found("Student not found"))
      [] call.op = "Delete" ->
            IF call.req.id \in DOMAIN st
            THEN DeleteResponse(st[call.req.id])
            ELSE Err(not_found("Student not found"))
      [] call.op = "List" -> list_page(Values(st, ord), call.req)

\* the table it leaves
AtomicStore(st, call) ==
    CASE call.op = "Create" /\ call.student.id \notin DOMAIN st ->
            [k \in DOMAIN st \cup {call.student.id} |->
                IF k = call.student.id THEN call.student ELSE st[k]]
      [] call.op = "Update" /\ call.student.id \in DOMAIN st ->
            [k \in DOMAIN st |-> IF k = call.student.id THEN call.student ELSE st[k]]
      [] call.op = "Delete" /\ call.req.id \in DOMAIN st ->
            [k \in DOMAIN st \ {call.req.id} |-> st[k]]
      [] OTHER -> st

\* the orders the table may then iterate in
AtomicOrders(st, ord, call) ==
    CASE call.op = "Create" /\ call.student.id \notin DOMAIN st ->
            Perms(DOMAIN st \cup {call.student.id})
      [] call.op = "Delete" /\ call.req.id \in DOMAIN st -> {Without(ord, call.req.id)}
      [] OTHER -> {ord}

\* C16: each call takes effect at one instant between its invocation and its
\* response, the instant it returns: the answer it returns and the table it
\* leaves are those of the call run alone on the table of that instant, and
\* no other step of a call changes the table.  So the answers and the final
\* store of concurrent calls are those of the calls run one after the other
\* in the order of their returns; the count and the page of a List answer are
\* of one and the same table.
C16_CallsAreAtomic ==
    [][\A c \in Calls :
        IF calls[c].pc \notin {"idle", "done"} /\ calls'[c].pc = "done"
        THEN /\ calls'[c].resp = AtomicAnswer(store, order, calls[c])
             /\ store' = AtomicStore(store, calls[c])
             /\ order' \in AtomicOrders(store, order, calls[c])
        ELSE calls'[c] # calls[c] => store' = store /\ order' = order
      ]_vars

\* two Creates of one id were in flight together: one has returned with
\* success, the other, invoked before that, still waits for the lock
C16_Witness ==
    \E c, d \in Calls :
        /\ c # d
        /\ Done(c, "Create") /\ Code(c) = "Ok"
        /\ calls[d].op = "Create" /\ calls[d].pc = "waiting"
        /\ calls[d].student.id = calls[c].student.id

-----------------------------------------------------------------------------
(* Progress: the concurrent callers under a fair scheduler.  The runtime runs *)
(* every task that can take a step, and the RwLock serves its queue in order. *)

LiveListRequests == {Request(None, <<>>, 1, tok) : tok \in {<<>>, <<"1">>, <<"2">>}}

LiveInvokeCreate(c) ==
    /\ \E req \in AtomicCreateRequests : RoomFor(req) /\ CreateInvoke(c, req)
    /\ UNCHANGED aux

LiveInvokeGet(c) == (\E req \in AtomicIdRequests : GetInvoke(c, req)) /\ UNCHANGED aux

LiveInvokeUpdate(c) ==
    (\E req \in AtomicUpdateRequests : UpdateInvoke(c, req)) /\ UNCHANGED aux

LiveInvokeDelete(c) ==
    (\E req \in IdRequests : DeleteInvoke(c, req)) /\ UNCHANGED aux

LiveInvokeList(c) == (\E req \in LiveListRequests : ListInvoke(c, req)) /\ UNCHANGED aux

\* the steps of the task of call c that the scheduler, not the caller, takes
LiveLock(c) == Acquire(c) /\ UNCHANGED aux

LiveRun(c) ==
    /\ \/ CreateLook(c)
       \/ CreateInsert(c)
       \/ GetBody(c)
       \/ UpdateLook(c)
       \/ UpdateAssign(c)
       \/ DeleteBody(c)
       \/ ListCollect(c)
       \/ ListRespond(c)
    /\ UNCHANGED aux

LiveReturn(c) == Return(c) /\ UNCHANGED aux

NextLive ==
    \E c \in Callers :
        \/ LiveInvokeCreate(c)
        \/ LiveInvokeGet(c)
        \/ LiveInvokeUpdate(c)
        \/ LiveInvokeDelete(c)
        \/ LiveInvokeList(c)
        \/ LiveLock(c)
        \/ LiveRun(c)
        \/ LiveReturn(c)

SpecLive ==
    /\ Init
    /\ [][NextLive]_vars
    /\ \A c \in Callers : WF_vars(LiveLock(c)) /\ WF_vars(LiveRun(c))

-----------------------------------------------------------------------------
(* C17 *)

\* the answers a call may return: a response or a typed failure
TypedAnswers == {"Ok", "InvalidArgument", "NotFound", "AlreadyExists"}

\* C17: under a fair scheduler every call that is invoked returns; what it
\* returns is a response or one of the failures InvalidArgument, NotFound and
\* AlreadyExists, and a response when the call is a List; and a call that has
\* returned holds the lock no more, whatever it returned.
C17_EveryCallReturns ==
    /\ [](\A c \in Calls :
            /\ calls[c].pc = "done" => Code(c) \in TypedAnswers
            /\ Done(c, "List") => Code(c) = "Ok"
            /\ calls[c].pc \in {"idle", "done"} =>
                  lock.writer # c /\ c \notin lock.readers)
    /\ \A c \in Calls :
            (calls[c].pc \notin {"idle", "done"}) ~> (calls[c].pc = "done")

-----------------------------------------------------------------------------
(* C18 *)

\* C18: every record is stored under its own id, in every state; and an
\* Update leaves the keys of the store, and the id of the record under each
\* key, as they were.
C18_IdIsKey ==
    [][ /\ \A k \in DOMAIN store' : store'[k].id = k
        /\ \A c \in Calls :
              Returns(c, "Update") =>
                  /\ DOMAIN store' = DOMAIN store
                  /\ \A k \in DOMAIN store : store'[k].id = store[k].id
      ]_vars

\* an Update has replaced one of two stored records, each under its own id
C18_Witness ==
    \E c \in Calls :
        /\ Done(c, "Update") /\ Code(c) = "Ok"
        /\ Cardinality(DOMAIN store) = 2
        /\ store[Sent(c).id] = Sent(c)
        /\ \A k \in DOMAIN store : store[k].id = k

-----------------------------------------------------------------------------
(* C19 *)

\* C19: no key of the store is empty or made of white space only, so every
\* stored record can be reached by its id: a Get of the key returns the
\* record, and the id check of Update and Delete lets the key through.
C19_NoBlankKey ==
    \A k \in DOMAIN store :
        /\ ~Blank(k)
        /\ GetAnswer(store, k) = StudentResponse(store[k])
        /\ check_id(k).code = "Ok"

-----------------------------------------------------------------------------
(* C20 *)

\* the rule a record breaks first, in the order name, email, age, gpa
FirstBroken(s) ==
    IF Blank(s.name) THEN "Student name cannot be empty"
    ELSE IF Blank(s.email) THEN "Student email cannot be empty"
    ELSE IF ~(0 <= s.age /\ s.age <= 150) THEN "Student age must be between 0 and 150"
    ELSE "Student GPA must be between 0.0 and 4.0"

\* C20: a Create of a record that breaks the rules fails with InvalidArgument
\* and reports the first rule broken, whether or not its id is in the store;
\* an Update without an id fails with InvalidArgument for the id, whatever
\* its record; an Update with an id and a record that breaks the rules fails
\* with InvalidArgument and reports the first rule broken, whether or not its
\* id is in the store.
C20_FailurePrecedence ==
    \A c \in Calls :
        /\ (Done(c, "Create") /\ ~MeetsRules(Sent(c))) =>
              calls[c].resp = Err(invalid_argument(FirstBroken(Sent(c))))
        /\ (Done(c, "Update") /\ Blank(Sent(c).id)) =>
              calls[c].resp = Err(invalid_argument("Student ID cannot be empty"))
        /\ (Done(c, "Update") /\ ~Blank(Sent(c).id) /\ ~MeetsRules(Sent(c))) =>
              calls[c].resp = Err(invalid_argument(FirstBroken(Sent(c))))

=============================================================================
